---- MODULE Spec2Model ----
(***************************************************************************)
(* A model of src/main.py: the vCard -> QR generator (three sizes,         *)
(* optional logo).  One run of main() is a state machine whose position is *)
(* pc; the inputs typed at the two prompts, the state of the files they    *)
(* name and the payload read from the VCF file are chosen by the           *)
(* environment.  The file system is taken to be unchanged by other         *)
(* processes during the run.                                               *)
(*                                                                         *)
(* Strings are sequences of one-character strings over Alphabet, which has *)
(* no "/", "." or "~": a cleaned string is a single path component with no *)
(* suffix, and expanduser() leaves it unchanged.                           *)
(***************************************************************************)
EXTENDS Integers, Sequences, FiniteSets, TLC

VARIABLES pc, vcf_raw, vcf_path, vcf_kind, vcard_text, logo_raw, logo_path,
          logo_kind, logo_src, base, idx, qr_img, logo_img, files, calls,
          stdout, stderr, exit_code

vars == <<pc, vcf_raw, vcf_path, vcf_kind, vcard_text, logo_raw, logo_path,
          logo_kind, logo_src, base, idx, qr_img, logo_img, files, calls,
          stdout, stderr, exit_code>>

(* ---- bounds of the model ---------------------------------------------- *)
\* longest answer typed at the VCF prompt
MaxLen == 3
\* longest answer typed at the logo prompt
MaxLogoLen == 1
\* largest QR version a payload that fits is taken to need
MaxFitVersion == 2

(* ---- program constants ------------------------------------------------ *)
\* the sizes in another order
SizesReordered == <<300, 1000, 600>>
STANDARD_SIZES == <<300, 600, 1000>>
\* border=4 of qrcode.QRCode(...)
BORDER == 4
\* box_size of qrcode.QRCode(...), left at its default
BOX_SIZE == 10
\* the largest QR version (40): qr.make(fit=True) fails beyond it
QR_MAX_VERSION == 40
\* LOGO_SCALE = 0.30 is the double 0x1.3333333333333p-2 = LogoScaleMant / 2^54
LogoScaleExp == 54
\* the 53 significant bits of LOGO_SCALE, least significant first:
\* 0x13333333333333 = 1 0011 0011 ... 0011 (binary, 12 groups of 0011 after 10011)
RECURSIVE Rep(_, _)
Rep(s, n) == IF n = 0 THEN <<>> ELSE s \o Rep(s, n - 1)
LogoScaleMant == Rep(<<1, 1, 0, 0>>, 12) \o <<1, 1, 0, 0, 1>>
\* significant bits of a double
DoubleBits == 53

SP == " "
DQ == "\""
SQ == "'"
Alphabet == {SP, DQ, SQ, "a"}

RECURSIVE StringsUpTo(_)
StringsUpTo(n) ==
  IF n = 0 THEN {<<>>}
  ELSE LET shorter == StringsUpTo(n - 1)
       IN  shorter \cup {Append(s, c) : s \in {t \in shorter : Len(t) = n - 1}, c \in Alphabet}

\* no value: Python's None, and variables not yet assigned
None == <<>>

(* ---- str methods used by clean_path ----------------------------------- *)
RECURSIVE LStrip(_)
LStrip(s) == IF s # <<>> /\ Head(s) = SP THEN LStrip(Tail(s)) ELSE s

RECURSIVE RStrip(_)
RStrip(s) ==
  IF s # <<>> /\ s[Len(s)] = SP THEN RStrip(SubSeq(s, 1, Len(s) - 1)) ELSE s

\* str.strip()
Strip(s) == RStrip(LStrip(s))

\* str.startswith(c), str.endswith(c) for a one-character c
StartsWith(s, c) == Len(s) >= 1 /\ s[1] = c
EndsWith(s, c) == Len(s) >= 1 /\ s[Len(s)] = c

\* raw[1:-1]
Slice1m1(s) == SubSeq(s, 2, Len(s) - 1)

(* ---- pathlib ----------------------------------------------------------- *)
\* the current working directory, an absolute path (a sequence of components)
Cwd == << <<"cwd">> >>

\* Path(raw).expanduser().resolve(): Path("") is ".", which resolves to the
\* working directory; any other string here is one relative component
Resolve(s) == IF s = <<>> THEN Cwd ELSE Append(Cwd, s)

\* Path.stem: the final component (no component has a suffix here)
Stem(p) == p[Len(p)]

clean_path(raw) ==
  LET r == Strip(raw)
      q == IF (StartsWith(r, DQ) /\ EndsWith(r, DQ)) \/ (StartsWith(r, SQ) /\ EndsWith(r, SQ))
           THEN Slice1m1(r)
           ELSE r
  IN  Resolve(q)

(* ---- float arithmetic of int(target_px * LOGO_SCALE) ------------------- *)
\* Binary numbers are sequences of bits, least significant first.
RECURSIVE MulCarry(_, _, _)
MulCarry(bits, n, carry) ==
  IF bits = <<>>
  THEN IF carry = 0 THEN <<>> ELSE <<carry % 2>> \o MulCarry(<<>>, n, carry \div 2)
  ELSE LET t == Head(bits) * n + carry
       IN  <<t % 2>> \o MulCarry(Tail(bits), n, t \div 2)

RECURSIVE IncBits(_)
IncBits(bits) ==
  IF bits = <<>> THEN <<1>>
  ELSE IF Head(bits) = 0 THEN <<1>> \o Tail(bits) ELSE <<0>> \o IncBits(Tail(bits))

RECURSIVE BitsToInt(_)
BitsToInt(bits) == IF bits = <<>> THEN 0 ELSE Head(bits) + 2 * BitsToInt(Tail(bits))

\* The double nearest to the exact product p * 2^-LogoScaleExp (round to nearest,
\* ties to even), as [mant, drop]: the value is mant * 2^(drop - LogoScaleExp).
RoundToDouble(p) ==
  IF Len(p) <= DoubleBits THEN [mant |-> p, drop |-> 0]
  ELSE LET d      == Len(p) - DoubleBits
           kept   == SubSeq(p, d + 1, Len(p))
           guard  == p[d]
           sticky == \E i \in 1..(d - 1) : p[i] = 1
           up     == guard = 1 /\ (sticky \/ kept[1] = 1)
       IN  [mant |-> IF up THEN IncBits(kept) ELSE kept, drop |-> d]

\* int(x) of a positive double below 2^DoubleBits: the bits above the binary point
IntOfDouble(x) ==
  BitsToInt(SubSeq(x.mant, LogoScaleExp - x.drop + 1, Len(x.mant)))

\* int(target_px * LOGO_SCALE)
ScaledSide(target_px) == IntOfDouble(RoundToDouble(MulCarry(LogoScaleMant, target_px, 0)))

(* ---- images ------------------------------------------------------------ *)
\* Image.resize((w, h), ...): a new image of the given size
Resize(img, w, h) == [img EXCEPT !.width = w, !.height = h]

\* A payload is identified by the smallest QR version that holds it at error
\* correction level H; a payload that exceeds the capacity of version
\* QR_MAX_VERSION needs more than that.
Payloads == (1..MaxFitVersion) \cup {QR_MAX_VERSION + 1}
\* an encoder that never reports an overflow
OverflowsNever(data) == FALSE
Overflows(data) == data > QR_MAX_VERSION

\* side in pixels of the image qr.make_image() draws for a version
NativeSide(version) == (4 * version + 17 + 2 * BORDER) * BOX_SIZE

\* make_qr_image without the final resize
make_qr_image_native(data, size_px) ==
  [width |-> NativeSide(data), height |-> NativeSide(data), mode |-> "RGB",
   data |-> data, overlay |-> <<>>]

\* make_qr_image when the payload fits
make_qr_image(data, size_px) ==
  LET img == [width |-> NativeSide(data), height |-> NativeSide(data), mode |-> "RGB",
              data |-> data, overlay |-> <<>>]
  IN  Resize(img, size_px, size_px)

\* load_logo when Image.open succeeds on a source image of size src
load_logo(src, target_px) ==
  LET logo == [width |-> src[1], height |-> src[2], mode |-> "RGBA"]
      side == ScaledSide(target_px)
  IN  Resize(logo, side, side)

\* embed_logo without the halving of the offsets
embed_logo_uncentered(qr, logo) ==
  LET lx == qr.width - logo.width
      ly == qr.height - logo.height
  IN  [qr EXCEPT !.overlay = <<[x |-> lx, y |-> ly, width |-> logo.width, height |-> logo.height]>>]

embed_logo(qr, logo) ==
  LET lx == (qr.width - logo.width) \div 2
      ly == (qr.height - logo.height) \div 2
  IN  [qr EXCEPT !.overlay = <<[x |-> lx, y |-> ly, width |-> logo.width, height |-> logo.height]>>]

\* f"{base}_{size}px.png"
OutName(b, size) == <<b, "_", size, "px.png">>

(* ---- the files the two answers can name -------------------------------- *)
\* the working directory is a directory; another path may name anything
VcfKindsAt(path) ==
  IF path = Cwd THEN {"dir"} ELSE {"file", "missing", "dir", "noperm", "baddecode"}

\* the VCF file, once read as text, exists
LogoKindsAt(path, vpath) ==
  IF path = None THEN {"none"}
  ELSE IF path = Cwd THEN {"dir"}
  ELSE IF path = vpath THEN {"image", "undecodable"}
  ELSE {"image", "missing", "undecodable"}

\* the sizes of the logo source images considered, square and not
LogoSources == {<<64, 64>>, <<50, 100>>}

(* ---- process exit ------------------------------------------------------ *)
\* the message printed, then sys.exit() with no argument: exit status 0
SysExitZero(text, arg) ==
  /\ stderr' = Append(stderr, [kind |-> "message", text |-> text, arg |-> arg])
  /\ exit_code' = 0
  /\ pc' = "exited"

\* sys.exit(text): the text on stderr, exit status 1
SysExit(text, arg) ==
  /\ stderr' = Append(stderr, [kind |-> "message", text |-> text, arg |-> arg])
  /\ exit_code' = 1
  /\ pc' = "exited"

\* an exception nothing catches: a traceback on stderr, exit status 1
Crash(exc) ==
  /\ stderr' = Append(stderr, [kind |-> "traceback", text |-> exc, arg |-> None])
  /\ exit_code' = 1
  /\ pc' = "exited"

Size == STANDARD_SIZES[idx]

Init ==
  /\ pc = "prompt_vcf"
  /\ vcf_raw = None /\ vcf_path = None /\ vcf_kind = "unknown" /\ vcard_text = 0
  /\ logo_raw = None /\ logo_path = None /\ logo_kind = "none" /\ logo_src = None
  /\ base = None /\ idx = 0
  /\ qr_img = None /\ logo_img = None
  /\ files = <<>> /\ calls = <<>> /\ stdout = <<>> /\ stderr = <<>>
  /\ exit_code = -1

\* main, lines 60-61: the first prompt and clean_path
PromptVcf ==
  /\ pc = "prompt_vcf"
  /\ \/ /\ Crash("EOFError")
        /\ UNCHANGED <<vcf_raw, vcf_path, vcf_kind>>
     \/ \E raw \in StringsUpTo(MaxLen) :
          /\ vcf_raw' = raw
          /\ vcf_path' = clean_path(raw)
          /\ vcf_kind' \in VcfKindsAt(clean_path(raw))
          /\ pc' = "read_vcf"
          /\ UNCHANGED <<stderr, exit_code>>
  /\ UNCHANGED <<vcard_text, logo_raw, logo_path, logo_kind, logo_src, base, idx,
                 qr_img, logo_img, files, calls, stdout>>

\* main, line 62: read_vcf
ReadVcf ==
  /\ pc = "read_vcf"
  /\ \/ /\ vcf_kind = "file"
        /\ vcard_text' \in Payloads
        /\ pc' = "prompt_logo"
        /\ UNCHANGED <<stderr, exit_code>>
     \/ /\ vcf_kind = "missing"
        /\ SysExit("VCF not found", vcf_path)
        /\ UNCHANGED vcard_text
     \/ /\ vcf_kind \in {"dir", "noperm", "baddecode"}
        /\ Crash(CASE vcf_kind = "dir" -> "IsADirectoryError"
                   [] vcf_kind = "noperm" -> "PermissionError"
                   [] OTHER -> "UnicodeDecodeError")
        /\ UNCHANGED vcard_text
  /\ UNCHANGED <<vcf_raw, vcf_path, vcf_kind, logo_raw, logo_path, logo_kind, logo_src,
                 base, idx, qr_img, logo_img, files, calls, stdout>>

\* the second prompt without the test of logo_raw.strip()
PromptLogoAlwaysCleans ==
  /\ pc = "prompt_logo"
  /\ \/ /\ stderr' = Append(stderr, [kind |-> "traceback", text |-> "EOFError", arg |-> None])
        /\ exit_code' = 1
        /\ pc' = "exited"
        /\ UNCHANGED <<logo_raw, logo_path, logo_kind, logo_src, base, idx>>
     \/ \E raw \in StringsUpTo(MaxLogoLen) :
          LET path == clean_path(raw)
          IN  /\ logo_raw' = raw
              /\ logo_path' = path
              /\ logo_kind' \in LogoKindsAt(path, vcf_path)
              /\ IF logo_kind' = "image" THEN logo_src' \in LogoSources ELSE logo_src' = None
              /\ base' = Stem(vcf_path)
              /\ idx' = 1
              /\ pc' = "make_qr"
              /\ UNCHANGED <<stderr, exit_code>>
  /\ UNCHANGED <<vcf_raw, vcf_path, vcf_kind, vcard_text, qr_img, logo_img, files,
                 calls, stdout>>

\* main, lines 64-69: the second prompt, the base name, the start of the loop
PromptLogo ==
  /\ pc = "prompt_logo"
  /\ \/ /\ Crash("EOFError")
        /\ UNCHANGED <<logo_raw, logo_path, logo_kind, logo_src, base, idx>>
     \/ \E raw \in StringsUpTo(MaxLogoLen) :
          LET path == IF Strip(raw) # <<>> THEN clean_path(raw) ELSE None
          IN  /\ logo_raw' = raw
              /\ logo_path' = path
              /\ logo_kind' \in LogoKindsAt(path, vcf_path)
              /\ IF logo_kind' = "image" THEN logo_src' \in LogoSources ELSE logo_src' = None
              /\ base' = Stem(vcf_path)
              /\ idx' = 1
              /\ pc' = "make_qr"
              /\ UNCHANGED <<stderr, exit_code>>
  /\ UNCHANGED <<vcf_raw, vcf_path, vcf_kind, vcard_text, qr_img, logo_img, files,
                 calls, stdout>>

\* main, lines 70-71: make_qr_image, then the test of logo_path
MakeQr ==
  /\ pc = "make_qr"
  /\ calls' = Append(calls, <<"make_qr_image", Size>>)
  /\ IF Overflows(vcard_text)
     THEN /\ Crash("DataOverflowError")
          /\ UNCHANGED qr_img
     ELSE /\ qr_img' = make_qr_image(vcard_text, Size)
          /\ pc' = IF logo_path # None THEN "load_logo" ELSE "save"
          /\ UNCHANGED <<stderr, exit_code>>
  /\ UNCHANGED <<vcf_raw, vcf_path, vcf_kind, vcard_text, logo_raw, logo_path, logo_kind,
                 logo_src, base, idx, logo_img, files, stdout>>

\* load_logo that gives up the logo when it cannot be loaded
LoadLogoFallsBack ==
  /\ pc = "load_logo"
  /\ calls' = Append(calls, <<"load_logo", Size>>)
  /\ IF logo_kind = "image"
     THEN /\ logo_img' = load_logo(logo_src, Size)
          /\ pc' = "embed_logo"
     ELSE /\ pc' = "save"
          /\ UNCHANGED logo_img
  /\ UNCHANGED <<vcf_raw, vcf_path, vcf_kind, vcard_text, logo_raw, logo_path, logo_kind,
                 logo_src, base, idx, qr_img, files, stdout, stderr, exit_code>>

\* main, line 72: load_logo
LoadLogo ==
  /\ pc = "load_logo"
  /\ calls' = Append(calls, <<"load_logo", Size>>)
  /\ IF logo_kind = "image"
     THEN /\ logo_img' = load_logo(logo_src, Size)
          /\ pc' = "embed_logo"
          /\ UNCHANGED <<stderr, exit_code>>
     ELSE /\ SysExit("Failed to load logo", logo_kind)
          /\ UNCHANGED logo_img
  /\ UNCHANGED <<vcf_raw, vcf_path, vcf_kind, vcard_text, logo_raw, logo_path, logo_kind,
                 logo_src, base, idx, qr_img, files, stdout>>

\* main, line 73: embed_logo
EmbedLogo ==
  /\ pc = "embed_logo"
  /\ calls' = Append(calls, <<"embed_logo", Size>>)
  /\ qr_img' = embed_logo(qr_img, logo_img)
  /\ pc' = "save"
  /\ UNCHANGED <<vcf_raw, vcf_path, vcf_kind, vcard_text, logo_raw, logo_path, logo_kind,
                 logo_src, base, idx, logo_img, files, stdout, stderr, exit_code>>

\* a save whose failure is swallowed: the loop goes on to the next size
SaveSwallowsError ==
  /\ pc = "save"
  /\ \/ /\ files' = Append(files, [name |-> OutName(base, Size), img |-> qr_img])
        /\ stdout' = Append(stdout, <<"Saved", OutName(base, Size)>>)
     \/ UNCHANGED <<files, stdout>>
  /\ idx' = idx + 1
  /\ pc' = IF idx < Len(STANDARD_SIZES) THEN "make_qr" ELSE "finish"
  /\ UNCHANGED <<vcf_raw, vcf_path, vcf_kind, vcard_text, logo_raw, logo_path, logo_kind,
                 logo_src, base, qr_img, logo_img, calls, stderr, exit_code>>

\* main, lines 75-77 and the loop's step: the image is saved, or the write fails
Save ==
  /\ pc = "save"
  /\ \/ /\ files' = Append(files, [name |-> OutName(base, Size), img |-> qr_img])
        /\ stdout' = Append(stdout, <<"Saved", OutName(base, Size)>>)
        /\ idx' = idx + 1
        /\ pc' = IF idx < Len(STANDARD_SIZES) THEN "make_qr" ELSE "finish"
        /\ UNCHANGED <<stderr, exit_code>>
     \/ /\ Crash("OSError")
        /\ UNCHANGED <<files, stdout, idx>>
  /\ UNCHANGED <<vcf_raw, vcf_path, vcf_kind, vcard_text, logo_raw, logo_path, logo_kind,
                 logo_src, base, qr_img, logo_img, calls>>

\* main, line 79, and the return from main: exit status 0
Finish ==
  /\ pc = "finish"
  /\ stdout' = Append(stdout, <<"All done">>)
  /\ exit_code' = 0
  /\ pc' = "exited"
  /\ UNCHANGED <<vcf_raw, vcf_path, vcf_kind, vcard_text, logo_raw, logo_path, logo_kind,
                 logo_src, base, idx, qr_img, logo_img, files, calls, stderr>>

Next ==
  \/ PromptVcf
  \/ ReadVcf
  \/ PromptLogo
  \/ MakeQr
  \/ LoadLogo
  \/ EmbedLogo
  \/ Save
  \/ Finish

Spec == Init /\ [][Next]_vars

(* ======================================================================= *)
(* The claims                                                              *)
(* ======================================================================= *)
FileNames == [i \in 1..Len(files) |-> files[i].name]
CallsOf(fn) == SelectSeq(calls, LAMBDA c : c[1] = fn)
IsPrefix(s, t) == Len(s) <= Len(t) /\ SubSeq(t, 1, Len(s)) = s
ThreeNames(b) == << <<b, "_", 300, "px.png">>, <<b, "_", 600, "px.png">>, <<b, "_", 1000, "px.png">> >>
\* the answer to a prompt is empty or only whitespace
Blank(raw) == \A i \in 1..Len(raw) : raw[i] = " "
LogoAnswered == pc \notin {"prompt_vcf", "read_vcf", "prompt_logo"} /\ idx >= 1

\* C1: a run that ends with no failed step (exit status 0) has called
\* make_qr_image exactly once per size in the order 300, 600, 1000, and has
\* written exactly the files <base>_300px.png, <base>_600px.png,
\* <base>_1000px.png, each once and in that order, base being the stem (final
\* component) of the resolved VCF path.
C1_ThreeFilesInOrder ==
  exit_code = 0 =>
    /\ CallsOf("make_qr_image") =
         << <<"make_qr_image", 300>>, <<"make_qr_image", 600>>, <<"make_qr_image", 1000>> >>
    /\ base = vcf_path[Len(vcf_path)]
    /\ FileNames = ThreeNames(base)

C1_Witness == exit_code = 0 /\ Len(files) = 3 /\ logo_path = None

\* C2: every saved image, and the image about to be saved, is a square whose
\* side is the size of its iteration, whatever the native side of the QR symbol,
\* with and without a logo.
C2_SavedImagesHaveTargetSize ==
  /\ \A i \in 1..Len(files) :
       /\ files[i].img.width = files[i].name[3]
       /\ files[i].img.height = files[i].name[3]
       /\ files[i].name[3] = <<300, 600, 1000>>[i]
  /\ pc = "save" => qr_img.width = <<300, 600, 1000>>[idx] /\ qr_img.height = <<300, 600, 1000>>[idx]

C2_Witness ==
  /\ Len(files) = 3
  /\ files[1].img.overlay # <<>>
  /\ (4 * files[1].img.data + 17 + 8) * 10 > 300
  /\ files[3].img.width = 1000

\* C3: when the resolved VCF path is missing, a directory or unreadable, the run
\* ends with exactly one message on stderr, the "VCF not found" message naming
\* the path, a non-zero exit status and no file written.
C3_UnopenableVcfSingleMessage ==
  (pc = "exited" /\ vcf_kind \in {"missing", "dir", "noperm"}) =>
    /\ stderr = <<[kind |-> "message", text |-> "VCF not found", arg |-> vcf_path]>>
    /\ exit_code # 0
    /\ files = <<>>

\* C4: when the logo answer is not blank and names a file that is missing or
\* cannot be decoded, no output file is ever written, the run ends with exactly
\* one message and a non-zero exit status, and once load_logo has been called
\* that message is the "Failed to load logo" message.
C4_BadLogoNoOutput ==
  (LogoAnswered /\ logo_path # <<>> /\ logo_kind # "image") =>
    /\ files = <<>>
    /\ CallsOf("embed_logo") = <<>>
    /\ pc = "exited" =>
         /\ exit_code # 0
         /\ Len(stderr) = 1
         /\ CallsOf("load_logo") # <<>> =>
              stderr[1].kind = "message" /\ stderr[1].text = "Failed to load logo"

C4_Witness ==
  /\ pc = "exited" /\ logo_kind = "missing" /\ files = <<>>
  /\ calls = << <<"make_qr_image", 300>>, <<"load_logo", 300>> >>
  /\ stderr[1].text = "Failed to load logo"

\* C5: when the VCF text needs more than the largest QR version, no output file
\* is ever written, the run ends with a non-zero exit status, and the encoding
\* failure happens in the first call of make_qr_image (size 300).
C5_OverflowNoOutput ==
  vcard_text > 40 =>
    /\ files = <<>>
    /\ pc \notin {"load_logo", "embed_logo", "save", "finish"}
    /\ pc = "exited" =>
         /\ exit_code # 0
         /\ (\E i \in 1..Len(stderr) : stderr[i].text = "DataOverflowError") =>
              calls = << <<"make_qr_image", 300>> >>

C5_Witness ==
  /\ pc = "exited" /\ vcard_text > 40 /\ files = <<>>
  /\ stderr = <<[kind |-> "traceback", text |-> "DataOverflowError", arg |-> <<>>]>>

\* C6: at exit the status is 0 exactly when the three output files have been
\* written; a missing VCF file, a logo that is missing or undecodable and a
\* payload that does not fit each end the run with a non-zero status.
C6_ExitZeroIffAllWritten ==
  pc = "exited" =>
    /\ exit_code = 0 <=> (Len(files) = 3 /\ FileNames = ThreeNames(base))
    /\ vcf_kind = "missing" => exit_code # 0
    /\ (logo_path # <<>> /\ logo_kind # "image") => exit_code # 0
    /\ vcard_text > 40 => exit_code # 0

C6_Witness == pc = "exited" /\ exit_code = 1 /\ Len(files) = 2

\* C7: when the logo answer is blank, load_logo and embed_logo are never called
\* and every saved image is what make_qr_image returned for its size; when it
\* is not blank, every image saved or about to be saved went through exactly
\* one load_logo and one embed_logo call of its iteration.
C7_BlankLogoDisablesCompositing ==
  LogoAnswered =>
    IF Blank(logo_raw)
    THEN /\ CallsOf("load_logo") = <<>>
         /\ CallsOf("embed_logo") = <<>>
         /\ \A i \in 1..Len(files) :
              files[i].img = make_qr_image(vcard_text, <<300, 600, 1000>>[i])
    ELSE LET done == Len(files) + (IF pc = "save" THEN 1 ELSE 0)
         IN  /\ \A i \in 1..done :
                  /\ Len(SelectSeq(calls, LAMBDA c : c = <<"load_logo", <<300, 600, 1000>>[i]>>)) = 1
                  /\ Len(SelectSeq(calls, LAMBDA c : c = <<"embed_logo", <<300, 600, 1000>>[i]>>)) = 1
             /\ \A i \in 1..Len(files) : files[i].img.overlay # <<>>

C7_Witness == exit_code = 0 /\ logo_raw = <<" ">> /\ Len(files) = 3

\* C8: the path clean_path returns is the resolved form of the trimmed answer,
\* less its first and last character exactly when the trimmed answer has at
\* least two characters and begins and ends with the same straight quote; a
\* lone quote character and mismatched quotes lose nothing.
C8_QuotesStrippedOnlyAsPair ==
  vcf_kind # "unknown" =>
    LET t == Strip(vcf_raw)
        wrapped == Len(t) >= 2 /\ t[1] = t[Len(t)] /\ t[1] \in {"\"", "'"}
        e == IF wrapped THEN SubSeq(t, 2, Len(t) - 1) ELSE t
    IN  vcf_path = (IF e = <<>> THEN << <<"cwd">> >> ELSE << <<"cwd">>, e >>)

C10_WrittenIsPrefix ==
  [][ /\ IsPrefix(files, files')
      /\ LogoAnswered' => IsPrefix(FileNames', ThreeNames(base'))
      /\ ~LogoAnswered' => files' = <<>>
      /\ (pc = "exited" \/ pc' = "exited") => files' = files ]_vars

C10_Witness ==
  /\ pc = "exited" /\ exit_code = 1 /\ Len(files) = 1
  /\ stderr = <<[kind |-> "traceback", text |-> "OSError", arg |-> <<>>]>>

====
